---- MODULE Spec2Model ----
(***************************************************************************)
(* PDFReaderTool (gentopia/tools/read_pdf.py): text extraction from a PDF  *)
(* file and chunked summarization through a summarization pipeline.        *)
(*                                                                         *)
(* A Python str is a sequence of characters, each character the record     *)
(* [ch |-> c].  The summary text the pipeline returns for a chunk is an    *)
(* uninterpreted string: the one-element sequence holding the record of    *)
(* the arguments the pipeline was called with, so two summaries are equal  *)
(* exactly when the calls were.  A Python call yields [raised, value].     *)
(***************************************************************************)
EXTENDS Integers, Sequences, FiniteSets, TLC

(* ---------------- bounds of the model ---------------- *)
ShortLen == 5
LongPages == 4
MaxFailAt == 3
MaxLen == 5
MaxChunk == 3

(* ---------------- program constants ---------------- *)
max_chunk_size == 1000
default_max_length == 200
default_min_length == 50

(* ---------------- Python values ---------------- *)
None == "None"

Truthy(v) == v # None /\ v # ""

Min(a, b) == IF a < b THEN a ELSE b

Ch(c) == [ch |-> c]

Str(t) == [i \in 1..Len(t) |-> Ch(t[i])]

Return(v) == [raised |-> FALSE, value |-> v]

Raise(msg) == [raised |-> TRUE, value |-> msg]

NotLoadedMessage ==
    Str(<<"S","u","m","m","a","r","i","z","a","t","i","o","n"," ","m","o","d","e","l"," ","i","s"," ","n","o","t"," ","l","o","a","d","e","d",".">>)

NoFilePathMessage ==
    Str(<<"E","r","r","o","r",":"," ","N","o"," ","f","i","l","e"," ","p","a","t","h"," ","p","r","o","v","i","d","e","d",".">>)

ErrorReadingPrefix ==
    Str(<<"E","r","r","o","r"," ","r","e","a","d","i","n","g"," ","P","D","F"," ","f","i","l","e",":"," ">>)

ErrorSummarizingPrefix ==
    Str(<<"E","r","r","o","r"," ","s","u","m","m","a","r","i","z","i","n","g"," ","P","D","F"," ","f","i","l","e",":"," ">>)

(* str(e) of the exceptions the collaborators raise *)
OpenErrorText ==
    Str(<<"N","o"," ","s","u","c","h"," ","f","i","l","e">>)

ParseErrorText ==
    Str(<<"E","O","F"," ","m","a","r","k","e","r"," ","n","o","t"," ","f","o","u","n","d">>)

PageErrorText ==
    Str(<<"c","a","n"," ","o","n","l","y"," ","c","o","n","c","a","t","e","n","a","t","e"," ","s","t","r">>)

BackendErrorText ==
    Str(<<"i","n","d","e","x"," ","o","u","t"," ","o","f"," ","r","a","n","g","e">>)

(* ---------------- the files on disk ---------------- *)
Alphabet == <<"a", "b", "c", "d", "e", "f", "g">>

(* the text of a page: n characters, the k-th page starting k letters on *)
PageText(k, n) == [i \in 1..n |-> Ch(Alphabet[((i + k) % Len(Alphabet)) + 1])]

GoodPage(k, n) == [ok |-> TRUE, text |-> PageText(k, n)]

BadPage == [ok |-> FALSE, text |-> <<>>]

PdfFile(pages) == [exists |-> TRUE, parses |-> TRUE, pages |-> pages]

Paths ==
    {"missing.pdf", "corrupt.pdf", "nopages.pdf", "blank.pdf", "scanned.pdf",
     "short.pdf", "exact.pdf", "two.pdf", "long.pdf"}

FileSystem ==
    [p \in Paths |->
       CASE p = "missing.pdf" -> [exists |-> FALSE, parses |-> FALSE, pages |-> <<>>]
         [] p = "corrupt.pdf" -> [exists |-> TRUE, parses |-> FALSE, pages |-> <<>>]
         [] p = "nopages.pdf" -> PdfFile(<<>>)
         [] p = "blank.pdf"   -> PdfFile(<<GoodPage(1, 0)>>)
         [] p = "scanned.pdf" -> PdfFile(<<GoodPage(1, ShortLen), BadPage, GoodPage(3, ShortLen)>>)
         [] p = "short.pdf"   -> PdfFile(<<GoodPage(1, ShortLen)>>)
         [] p = "exact.pdf"   -> PdfFile(<<GoodPage(1, max_chunk_size)>>)
         [] p = "two.pdf"     -> PdfFile(<<GoodPage(1, max_chunk_size), GoodPage(2, max_chunk_size)>>)
         [] OTHER             -> PdfFile([k \in 1..LongPages |-> GoodPage(k, (max_chunk_size \div 2) + k)])]

(* ---------------- read_pdf ---------------- *)
RECURSIVE ExtractPages(_, _)
(* the loop `for page in reader.pages: text += page.extract_text()` *)
ExtractPages(pages, text) ==
    IF pages = <<>> THEN Return(text)
    ELSE IF ~Head(pages).ok THEN Raise(PageErrorText)
    ELSE ExtractPages(Tail(pages), text \o Head(pages).text)

(* the body of the try block of read_pdf *)
read_pdf_try(file_path) ==
    IF file_path \notin Paths \/ ~FileSystem[file_path].exists
    THEN Raise(OpenErrorText)
    ELSE IF ~FileSystem[file_path].parses
    THEN Raise(ParseErrorText)
    ELSE ExtractPages(FileSystem[file_path].pages, <<>>)

(* read_pdf without its except clause *)
read_pdf_no_except(file_path) ==
    LET r == read_pdf_try(file_path)
    IN  [raised |-> r.raised, value |-> r.value, opened |-> <<file_path>>]

read_pdf(file_path) ==
    LET r == read_pdf_try(file_path)
    IN  [raised |-> FALSE,
         value  |-> IF r.raised THEN ErrorReadingPrefix \o r.value ELSE r.value,
         opened |-> <<file_path>>]

(* ---------------- chunking ---------------- *)
RECURSIVE Range(_, _, _)
(* range(start, stop, step) for step >= 1, as the list of its values *)
Range(start, stop, step) ==
    IF start >= stop THEN <<>>
    ELSE <<start>> \o Range(start + step, stop, step)

(* s[i:j] for 0 <= i <= j: 0-based, end exclusive, clipped at len(s) *)
Slice(s, i, j) == SubSeq(s, i + 1, Min(j, Len(s)))

(* the comprehension with range(0, len(text) + 1, size) *)
TextChunks_range_past_end(text, size) ==
    LET starts == Range(0, Len(text) + 1, size)
    IN  [k \in 1..Len(starts) |-> Slice(text, starts[k], starts[k] + size)]

(* the comprehension with range(1, len(text), size) *)
TextChunks_from_one(text, size) ==
    LET starts == Range(1, Len(text), size)
    IN  [k \in 1..Len(starts) |-> Slice(text, starts[k], starts[k] + size)]

(* the comprehension with text[i:i+size-1] *)
TextChunks_short_slice(text, size) ==
    LET starts == Range(0, Len(text), size)
    IN  [k \in 1..Len(starts) |-> Slice(text, starts[k], starts[k] + size - 1)]

(* [text[i:i+size] for i in range(0, len(text), size)] *)
TextChunks(text, size) ==
    LET starts == Range(0, Len(text), size)
    IN  [k \in 1..Len(starts) |-> Slice(text, starts[k], starts[k] + size)]

(* ---------------- the summarization pipeline ---------------- *)
SummarizerCall(chunk, max_length, min_length) ==
    [text |-> chunk, max_length |-> max_length, min_length |-> min_length,
     do_sample |-> FALSE]

(* self._summarizer(...)[0]['summary_text'] of a call that succeeds *)
SummaryText(c) == <<[summary_text |-> c]>>

RECURSIVE SummarizeChunks(_, _, _, _, _, _, _)
(* the loop over text_chunks from chunk k on; fail_at is the number of the *)
(* pipeline invocation that raises (none if no invocation has that number) *)
SummarizeChunks(chunks, k, max_length, min_length, fail_at, summaries, calls) ==
    IF k > Len(chunks)
    THEN [raised |-> FALSE, value |-> summaries, summarizer_calls |-> calls]
    ELSE LET c == SummarizerCall(chunks[k], max_length, min_length)
         IN  IF Len(calls) + 1 = fail_at
             THEN [raised |-> TRUE, value |-> BackendErrorText,
                   summarizer_calls |-> Append(calls, c)]
             ELSE SummarizeChunks(chunks, k + 1, max_length, min_length, fail_at,
                                  Append(summaries, SummaryText(c)), Append(calls, c))

RECURSIVE Join_reversed(_, _)
(* sep.join(reversed(strs)) *)
Join_reversed(sep, strs) ==
    IF strs = <<>> THEN <<>>
    ELSE IF Len(strs) = 1 THEN strs[1]
    ELSE Join_reversed(sep, Tail(strs)) \o sep \o strs[1]

RECURSIVE Join(_, _)
(* sep.join(strs) *)
Join(sep, strs) ==
    IF strs = <<>> THEN <<>>
    ELSE IF Len(strs) = 1 THEN strs[1]
    ELSE strs[1] \o sep \o Join(sep, Tail(strs))

(* ---------------- summarize_pdf ---------------- *)
(* the body of the try block of summarize_pdf *)
summarize_pdf_try(file_path, max_length, min_length, fail_at) ==
    LET r      == read_pdf(file_path)
        chunks == TextChunks(r.value, max_chunk_size)
        loop   == SummarizeChunks(chunks, 1, max_length, min_length, fail_at, <<>>, <<>>)
    IN  [raised |-> loop.raised,
         value  |-> IF loop.raised THEN loop.value ELSE Join(Str(<<" ">>), loop.value),
         opened |-> r.opened,
         summarizer_calls |-> loop.summarizer_calls,
         text_chunks |-> chunks]

(* summarize_pdf without the test of self._summarizer: calling None raises *)
(* inside the try block, after the text was extracted                      *)
summarize_pdf_no_guard(summarizer, file_path, max_length, min_length, fail_at) ==
    LET t == summarize_pdf_try(file_path, max_length, min_length,
                               IF summarizer = None THEN 1 ELSE fail_at)
    IN  [t EXCEPT !.raised = FALSE,
                  !.value = IF t.raised THEN ErrorSummarizingPrefix \o t.value
                            ELSE t.value]

(* summarize_pdf whose except clause keeps the summaries made so far *)
summarize_pdf_partial(summarizer, file_path, max_length, min_length, fail_at) ==
    IF summarizer = None
    THEN [raised |-> FALSE, value |-> NotLoadedMessage, opened |-> <<>>,
          summarizer_calls |-> <<>>, text_chunks |-> <<>>]
    ELSE LET t == summarize_pdf_try(file_path, max_length, min_length, fail_at)
             done == [i \in 1..(Len(t.summarizer_calls) - 1) |->
                        SummaryText(t.summarizer_calls[i])]
         IN  [t EXCEPT !.raised = FALSE,
                       !.value = IF t.raised
                                 THEN Join(Str(<<" ">>), done) \o ErrorSummarizingPrefix \o t.value
                                 ELSE t.value]

summarize_pdf(summarizer, file_path, max_length, min_length, fail_at) ==
    IF summarizer = None
    THEN [raised |-> FALSE, value |-> NotLoadedMessage, opened |-> <<>>,
          summarizer_calls |-> <<>>, text_chunks |-> <<>>]
    ELSE LET t == summarize_pdf_try(file_path, max_length, min_length, fail_at)
         IN  [t EXCEPT !.raised = FALSE,
                       !.value = IF t.raised THEN ErrorSummarizingPrefix \o t.value
                                 ELSE t.value]

(* ---------------- _run and _arun ---------------- *)
(* kwargs is a sequence of <<key, value>> pairs with distinct keys *)
kwargs_get(kwargs, key) ==
    IF \E i \in 1..Len(kwargs) : kwargs[i][1] = key
    THEN kwargs[CHOOSE i \in 1..Len(kwargs) : kwargs[i][1] = key][2]
    ELSE None

(* _run that looks at the alias first *)
_run_alias_first(file_path, kwargs) ==
    LET alias == kwargs_get(kwargs, "__arg1")
        fp    == IF Truthy(alias) THEN alias ELSE file_path
    IN  IF ~Truthy(fp)
        THEN [raised |-> FALSE, value |-> NoFilePathMessage, opened |-> <<>>]
        ELSE read_pdf(fp)

_run(file_path, kwargs) ==
    LET fp == IF ~Truthy(file_path) THEN kwargs_get(kwargs, "__arg1") ELSE file_path
    IN  IF ~Truthy(fp)
        THEN [raised |-> FALSE, value |-> NoFilePathMessage, opened |-> <<>>]
        ELSE read_pdf(fp)

(* _arun that passes the length bounds in the wrong order *)
_arun_swapped(summarizer, file_path, fail_at) ==
    summarize_pdf(summarizer, file_path, default_min_length, default_max_length, fail_at)

_arun(summarizer, file_path, fail_at) ==
    summarize_pdf(summarizer, file_path, default_max_length, default_min_length, fail_at)

(* ---------------- state ---------------- *)
VARIABLES
    _summarizer,       \* the pipeline object, or None
    pipeline_log,      \* outcome of every pipeline(...) construction so far
    call,              \* the last call made on the tool and its arguments
    result,            \* [raised, value] of the last call
    opened,            \* paths handed to open() during the last call
    summarizer_calls,  \* arguments of every pipeline invocation of the last call
    text_chunks        \* the chunk list built by the last call

vars == <<_summarizer, pipeline_log, call, result, opened, summarizer_calls, text_chunks>>

Loaded == "pipeline"

(* __init__: _initialize_summarizer(model_name) has run once *)
Init ==
    /\ \E outcome \in {"ok", "raised"} :
          /\ pipeline_log = <<outcome>>
          /\ _summarizer = IF outcome = "ok" THEN Loaded ELSE None
    /\ call = [op |-> "__init__"]
    /\ result = Return(<<>>)
    /\ opened = <<>>
    /\ summarizer_calls = <<>>
    /\ text_chunks = <<>>

PathArgs == Paths \cup {""}

LengthArgs == {<<default_max_length, default_min_length>>, <<100, 25>>}

KwargsArgs ==
    {<<>>} \cup {<< <<"__arg1", v>> >> : v \in {None, "", "short.pdf", "scanned.pdf"}}
           \cup {<< <<"path", "short.pdf">> >>}

ReadPdf ==
    \E file_path \in PathArgs :
       LET r == read_pdf(file_path)
       IN  /\ call' = [op |-> "read_pdf", file_path |-> file_path]
           /\ result' = [raised |-> r.raised, value |-> r.value]
           /\ opened' = r.opened
           /\ summarizer_calls' = <<>>
           /\ text_chunks' = <<>>
           /\ UNCHANGED <<_summarizer, pipeline_log>>

SummarizePdf ==
    \E file_path \in PathArgs, lengths \in LengthArgs, fail_at \in 0..MaxFailAt :
       LET r == summarize_pdf(_summarizer, file_path, lengths[1], lengths[2], fail_at)
       IN  /\ call' = [op |-> "summarize_pdf", file_path |-> file_path,
                       max_length |-> lengths[1], min_length |-> lengths[2],
                       fail_at |-> fail_at]
           /\ result' = [raised |-> r.raised, value |-> r.value]
           /\ opened' = r.opened
           /\ summarizer_calls' = r.summarizer_calls
           /\ text_chunks' = r.text_chunks
           /\ UNCHANGED <<_summarizer, pipeline_log>>

Run ==
    \E file_path \in PathArgs \cup {None}, kwargs \in KwargsArgs :
       LET r == _run(file_path, kwargs)
       IN  /\ call' = [op |-> "_run", file_path |-> file_path, kwargs |-> kwargs]
           /\ result' = [raised |-> r.raised, value |-> r.value]
           /\ opened' = r.opened
           /\ summarizer_calls' = <<>>
           /\ text_chunks' = <<>>
           /\ UNCHANGED <<_summarizer, pipeline_log>>

Arun ==
    \E file_path \in PathArgs, fail_at \in 0..MaxFailAt :
       LET r == _arun(_summarizer, file_path, fail_at)
       IN  /\ call' = [op |-> "_arun", file_path |-> file_path, fail_at |-> fail_at]
           /\ result' = [raised |-> r.raised, value |-> r.value]
           /\ opened' = r.opened
           /\ summarizer_calls' = r.summarizer_calls
           /\ text_chunks' = r.text_chunks
           /\ UNCHANGED <<_summarizer, pipeline_log>>

Next == ReadPdf \/ SummarizePdf \/ Run \/ Arun

Spec == Init /\ [][Next]_vars

(* ---------------- the chunking expression on its own ---------------- *)
Texts == UNION {[1..n -> {Ch("a"), Ch("b")}] : n \in 0..MaxLen}

InitChunk ==
    /\ \E text \in Texts, size \in 1..MaxChunk :
          call = [op |-> "text_chunks", text |-> text, size |-> size]
    /\ _summarizer = Loaded
    /\ pipeline_log = <<"ok">>
    /\ result = Return(<<>>)
    /\ opened = <<>>
    /\ summarizer_calls = <<>>
    /\ text_chunks = <<>>

BuildChunks ==
    /\ call.op = "text_chunks"
    /\ text_chunks' = TextChunks(call.text, call.size)
    /\ call' = [call EXCEPT !.op = "chunked"]
    /\ UNCHANGED <<_summarizer, pipeline_log, result, opened, summarizer_calls>>

NextChunk == BuildChunks

SpecChunk == InitChunk /\ [][NextChunk]_vars

(* ======================= properties ======================= *)
IsSummarize == call.op \in {"summarize_pdf", "_arun"}

max_length_of_call == IF call.op = "_arun" THEN 200 ELSE call.max_length

min_length_of_call == IF call.op = "_arun" THEN 50 ELSE call.min_length

(* the text read_pdf hands back for the path of the last call *)
ExtractedText == read_pdf(call.file_path).value

ExtractionFails(file_path) ==
    \/ file_path \notin Paths
    \/ ~FileSystem[file_path].exists
    \/ ~FileSystem[file_path].parses
    \/ \E k \in 1..Len(FileSystem[file_path].pages) : ~FileSystem[file_path].pages[k].ok

BackendFailed == IsSummarize /\ call.fail_at \in 1..Len(text_chunks)

StartsWith(s, prefix) ==
    Len(s) >= Len(prefix) /\ SubSeq(s, 1, Len(prefix)) = prefix

RECURSIVE Concat(_)
Concat(strs) == IF strs = <<>> THEN <<>> ELSE Head(strs) \o Concat(Tail(strs))

CeilDiv(l, c) == CHOOSE n \in 0..l : n * c >= l /\ (n - 1) * c < l

(* C1: with a loaded backend, when read_pdf fails on the path, summarize_pdf *)
(* returns read_pdf's error string unchanged and never calls the pipeline.   *)
C1_ExtractionErrorPropagated ==
    (IsSummarize /\ _summarizer # None /\ ExtractionFails(call.file_path))
    => /\ result = Return(ExtractedText)
       /\ summarizer_calls = <<>>

(* C2: if the pipeline construction raised in __init__, every later call of  *)
(* summarize_pdf returns exactly "Summarization model is not loaded.", opens *)
(* no file, and the construction is not retried (the backend stays None).    *)
C2_NotLoadedIsFinal ==
    pipeline_log[1] = "raised"
    => /\ pipeline_log = <<"raised">>
       /\ _summarizer = None
       /\ IsSummarize => /\ result = Return(NotLoadedMessage)
                         /\ opened = <<>>
                         /\ summarizer_calls = <<>>

C2_Witness ==
    /\ pipeline_log[1] = "raised"
    /\ call.op = "summarize_pdf"
    /\ call.file_path = "long.pdf"

(* C3: a text of length L cut with chunk size C >= 1 gives ceil(L/C) chunks, *)
(* each but the last of length C, the last of length 1..C, and the chunks    *)
(* concatenated in order are the text.                                       *)
C3_ChunksPartitionText ==
    call.op = "chunked"
    => LET n == Len(text_chunks)
       IN  /\ n = CeilDiv(Len(call.text), call.size)
           /\ \A k \in 1..(n - 1) : Len(text_chunks[k]) = call.size
           /\ n > 0 => Len(text_chunks[n]) \in 1..call.size
           /\ Concat(text_chunks) = call.text

C3_Witness ==
    /\ call.op = "chunked"
    /\ Len(text_chunks) >= 2
    /\ Len(text_chunks[Len(text_chunks)]) < call.size

(* C4: when no pipeline call fails, summarize_pdf calls the pipeline once    *)
(* per chunk in chunk order, and the value returned is the summaries of the  *)
(* chunks in that order with one space between neighbours.                   *)
C4_SummariesInChunkOrder ==
    (IsSummarize /\ _summarizer # None /\ ~BackendFailed)
    => LET n == Len(text_chunks)
       IN  /\ ~result.raised
           /\ Len(summarizer_calls) = n
           /\ \A i \in 1..n :
                 summarizer_calls[i] =
                    SummarizerCall(text_chunks[i], max_length_of_call, min_length_of_call)
           /\ Len(result.value) = IF n = 0 THEN 0 ELSE 2 * n - 1
           /\ \A i \in 1..n :
                 <<result.value[2 * i - 1]>> = SummaryText(summarizer_calls[i])
           /\ \A i \in 1..(n - 1) : result.value[2 * i] = Ch(" ")

C4_Witness ==
    /\ call.op = "summarize_pdf"
    /\ _summarizer # None
    /\ ~BackendFailed
    /\ Len(text_chunks) >= 3

(* C5 as stated: every extracted text shorter than the chunk size gives one  *)
(* chunk and the summary of the whole text.                                  *)
C5_ShortTextOneChunk_Original ==
    (IsSummarize /\ _summarizer # None /\ ~BackendFailed
       /\ Len(ExtractedText) < max_chunk_size)
    => /\ Len(text_chunks) = 1
       /\ result = Return(SummaryText(
             SummarizerCall(ExtractedText, max_length_of_call, min_length_of_call)))

(* C5 amended: every non-empty extracted text shorter than the chunk size    *)
(* gives one chunk and the summary of the whole text; the empty text gives   *)
(* no chunk and the empty string.                                            *)
C5_ShortTextOneChunk ==
    (IsSummarize /\ _summarizer # None /\ ~BackendFailed
       /\ Len(ExtractedText) < max_chunk_size)
    => IF Len(ExtractedText) >= 1
       THEN /\ Len(text_chunks) = 1
            /\ result = Return(SummaryText(
                  SummarizerCall(ExtractedText, max_length_of_call, min_length_of_call)))
       ELSE /\ Len(text_chunks) = 0
            /\ result = Return(<<>>)

C5_Witness ==
    /\ call.op = "summarize_pdf"
    /\ _summarizer # None
    /\ ~BackendFailed
    /\ call.file_path = "short.pdf"
    /\ Len(text_chunks) = 1

(* C6: read_pdf never raises; when the open, the parse or a page's text      *)
(* extraction fails it returns "Error reading PDF file: " followed by the    *)
(* exception's text and nothing of the pages; otherwise it returns the page  *)
(* texts concatenated in document order.                                     *)
C6_ReadPdfNeverRaises ==
    call.op = "read_pdf"
    => /\ ~result.raised
       /\ IF ExtractionFails(call.file_path)
          THEN /\ StartsWith(result.value, ErrorReadingPrefix)
               /\ SubSeq(result.value, Len(ErrorReadingPrefix) + 1, Len(result.value))
                     \in {OpenErrorText, ParseErrorText, PageErrorText}
          ELSE LET pages == FileSystem[call.file_path].pages
               IN  result.value = Concat([k \in 1..Len(pages) |-> pages[k].text])

C6_Witness ==
    /\ call.op = "read_pdf"
    /\ call.file_path = "scanned.pdf"
    /\ StartsWith(result.value, ErrorReadingPrefix)

(* C7: with a loaded backend, when a pipeline call fails, summarize_pdf does *)
(* not raise, returns "Error summarizing PDF file: " followed by the         *)
(* exception's text and no summary made so far, and calls the pipeline on no *)
(* chunk after the failing one.                                              *)
C7_BackendFailureReported ==
    (IsSummarize /\ _summarizer # None /\ BackendFailed)
    => /\ ~result.raised
       /\ result.value = ErrorSummarizingPrefix \o BackendErrorText
       /\ Len(summarizer_calls) = call.fail_at
       /\ \A i \in 1..call.fail_at : summarizer_calls[i].text = text_chunks[i]

C7_Witness ==
    /\ call.op = "summarize_pdf"
    /\ _summarizer # None
    /\ call.fail_at = 2
    /\ Len(text_chunks) = 3

(* C8: _run on a non-empty path returns what read_pdf returns for it and     *)
(* never calls the pipeline; _arun returns what summarize_pdf returns for    *)
(* the path with max_length 200, min_length 50 and chunks of 1000, whether   *)
(* the backend is loaded or None.                                            *)
C8_EntryPointsDelegate ==
    /\ (call.op = "_run" /\ Truthy(call.file_path))
       => /\ result = [raised |-> FALSE, value |-> ExtractedText]
          /\ summarizer_calls = <<>>
    /\ call.op = "_arun"
       => LET s == summarize_pdf(_summarizer, call.file_path, 200, 50, call.fail_at)
          IN  /\ result = [raised |-> s.raised, value |-> s.value]
              /\ summarizer_calls = s.summarizer_calls
              /\ opened = s.opened
              /\ text_chunks = s.text_chunks
              /\ _summarizer # None => text_chunks = TextChunks(ExtractedText, 1000)
              /\ \A i \in 1..Len(summarizer_calls) :
                    /\ summarizer_calls[i].max_length = 200
                    /\ summarizer_calls[i].min_length = 50

C8_Witness ==
    /\ call.op = "_arun"
    /\ _summarizer # None
    /\ call.file_path = "long.pdf"
    /\ ~BackendFailed
    /\ Len(summarizer_calls) = 3

C10_EmptyTextEmptySummary ==
    (IsSummarize /\ _summarizer # None /\ ~ExtractionFails(call.file_path)
       /\ ExtractedText = <<>>)
    => /\ text_chunks = <<>>
       /\ summarizer_calls = <<>>
       /\ result = Return(<<>>)

C10_Witness ==
    /\ call.op = "summarize_pdf"
    /\ _summarizer # None
    /\ call.file_path = "blank.pdf"
    /\ call.fail_at = 1
    /\ result = Return(<<>>)

====
